---- MODULE Spec2Model ----
(***************************************************************************)
(* profiler.py: a session of num_games profiled games.  main() runs the    *)
(* games one after the other, each inside run_profiled_game() under a      *)
(* fresh cProfile capture, folds every run's pstats samples into all_stats *)
(* keyed by the bare function name, then prints the KEY BOTTLENECKS block  *)
(* and the SUMMARY block.  The game engine (contest.layout,                *)
(* contest.capture) is an external collaborator: each of its calls either  *)
(* returns a value, returns its failure value (None) or raises.            *)
(*                                                                         *)
(* Times are floats in the source.  Here a time is a natural number of     *)
(* units of 0.01 s held with MantissaBits significant bits, and every      *)
(* addition rounds to nearest, ties to even, as IEEE-754 addition does     *)
(* (the source's doubles hold 53 bits; the model's precision is a bound).  *)
(***************************************************************************)
EXTENDS Integers, Sequences, FiniteSets, TLC

\* ---------------------------------------------------------------- bounds
MaxGames == 3
MantissaBits == 3
MaxNames == 5

\* ------------------------------------------------------ program constants
\* stats['cumtime'] > 0.01, in units of 0.01 s
Threshold == 1
\* bottlenecks[:4]
Limit == 4
\* (cumtime / calls) * 1000: milliseconds per second
MsPerSecond == 1000

NoneVal == "None"

Max(a, b) == IF a >= b THEN a ELSE b
Min(a, b) == IF a <= b THEN a ELSE b

\* ------------------------------------------------------- float arithmetic
RECURSIVE Ulp(_)
\* spacing of the representable values around x >= 0
Ulp(x) == IF x < 2^MantissaBits THEN 1 ELSE 2 * Ulp(x \div 2)

\* round to nearest representable value, ties to the even mantissa
Round(x) ==
    LET u == Ulp(x)
        q == x \div u
        r == x % u
    IN  IF 2 * r < u THEN q * u
        ELSE IF 2 * r > u THEN (q + 1) * u
        ELSE IF q % 2 = 0 THEN q * u ELSE (q + 1) * u

\* a += b on floats
FAdd(a, b) == Round(a + b)

\* a large time: the first value whose successor is not representable
Big == 2^MantissaBits

\* ------------------------------------------------- the profiled functions
\* pstats keys are (file, line, name) after strip_dirs()
GetLayoutFn  == <<"layout.py", 1, "get_layout">>
LoadAgentsFn == <<"capture.py", 2, "load_agents">>
NewGameFn    == <<"capture.py", 3, "new_game">>
RunFn        == <<"game.py", 4, "run">>
RedChooseFn  == <<"my_team.py", 5, "choose_action">>
BlueChooseFn == <<"baseline_team.py", 5, "choose_action">>
DisableFn    == <<"~", 0, "disable">>

GameFns  == {NewGameFn, RunFn, RedChooseFn, BlueChooseFn}

\* one pstats value (cc, nc, tt, ct, callers) without the callers
Sample(nc, tt, ct) == [nc |-> nc, tt |-> tt, ct |-> ct]

\* what the engine's run() can cost
RunSamples == {Sample(1, 0, 1), Sample(1, 1, Big)}

\* what the other profiled functions cost
GetLayoutSample  == Sample(1, 1, 1)
LoadAgentsSample == Sample(2, 1, 2)
NewGameSample    == Sample(1, 0, 0)
RedChooseSample  == Sample(2, 1, 1)
BlueChooseSample == Sample(3, 1, 1)
DisableSample    == Sample(1, 0, 0)

\* load_agents() results: a list of agent handles, None for a failed one
AgentLists == {<<"agent0", "agent1">>, <<"agent0", NoneVal>>}

\* finished games: move_history length and state.data.score
\* (has_history / has_data: what hasattr() answers)
Games ==
    {[has_history |-> TRUE, move_history |-> 120, has_data |-> TRUE, score |-> 5,
      built |-> TRUE],
     [has_history |-> TRUE, move_history |-> 7, has_data |-> TRUE, score |-> -2,
      built |-> TRUE],
     [has_history |-> FALSE, move_history |-> 0, has_data |-> FALSE, score |-> 0,
      built |-> TRUE]}
\* no game object yet / a game constructed and not yet run
NoGame == [has_history |-> FALSE, move_history |-> 0, has_data |-> FALSE, score |-> 0,
           built |-> FALSE]
FreshGame == [NoGame EXCEPT !.built = TRUE]

\* func[2]
FuncName(func) == func[3]

VARIABLES
    pc,            \* position of main()
    num_games,     \* args.num_games
    game_num,      \* loop variable of main()
    profiler,      \* the capture of the current run: [id, stats]
    active,        \* ids of the captures that are enabled
    layout_obj,    \* locals of run_profiled_game
    red_agents,
    blue_agents,
    game,
    score,
    moves,
    exc,           \* the exception in flight, "none" without one
    all_stats,     \* sequence of [name, cumtime, tottime, calls], insertion order
    total_moves,
    total_score,
    output,        \* stdout, one record per print()
    formatted,     \* result of a direct call of format_bottleneck()
    runs           \* history: what each finished run returned

vars == <<pc, num_games, game_num, profiler, active, layout_obj, red_agents,
          blue_agents, game, score, moves, exc, all_stats, total_moves,
          total_score, output, formatted, runs>>

locals == <<layout_obj, red_agents, blue_agents, game>>
totals == <<all_stats, total_moves, total_score>>

\* ------------------------------------------------------------ the capture
\* the capture notes a call only while it is enabled; a function called
\* again adds to its entry
RECURSIVE Noted(_, _, _)
Noted(stats, func, s) ==
    IF stats = <<>> THEN <<<<func, s>>>>
    ELSE IF Head(stats)[1] = func
         THEN <<<<func, Sample(Head(stats)[2].nc + s.nc,
                               FAdd(Head(stats)[2].tt, s.tt),
                               FAdd(Head(stats)[2].ct, s.ct))>>>> \o Tail(stats)
         ELSE <<Head(stats)>> \o Noted(Tail(stats), func, s)

Record(p, func, s) ==
    IF p.id \in active THEN [p EXCEPT !.stats = Noted(@, func, s)] ELSE p

\* ------------------------------------------------------------- aggregator
IndexOf(stats, name) ==
    IF \E i \in 1..Len(stats) : stats[i].name = name
    THEN CHOOSE i \in 1..Len(stats) : stats[i].name = name
    ELSE 0

\* defaultdict(lambda: {'cumtime': 0, 'tottime': 0, 'calls': 0})
DefaultEntry(name) == [name |-> name, cumtime |-> 0, tottime |-> 0, calls |-> 0]

\* mutant: = in place of +=
AddSample_Overwrite(stats, name, s) ==
    LET at   == IndexOf(stats, name)
        base == IF at = 0 THEN Append(stats, DefaultEntry(name)) ELSE stats
        i    == IF at = 0 THEN Len(base) ELSE at
    IN  [base EXCEPT ![i] = [name |-> name, cumtime |-> s.ct, tottime |-> s.tt,
                             calls |-> s.nc]]

\* all_stats[func_name][...] += ...
AddSample(stats, name, s) ==
    LET at   == IndexOf(stats, name)
        base == IF at = 0 THEN Append(stats, DefaultEntry(name)) ELSE stats
        i    == IF at = 0 THEN Len(base) ELSE at
    IN  [base EXCEPT ![i] = [name    |-> name,
                             cumtime |-> FAdd(@.cumtime, s.ct),
                             tottime |-> FAdd(@.tottime, s.tt),
                             calls   |-> @.calls + s.nc]]

RECURSIVE AccumulateFirst(_, _, _)
\* the loop below after its first k items
AccumulateFirst(stats, items, k) ==
    IF k = 0 THEN stats
    ELSE AddSample(AccumulateFirst(stats, items, k - 1),
                   FuncName(items[k][1]), items[k][2])

\* for func, (cc, nc, tt, ct, callers) in s.stats.items()
Accumulate(stats, items) == AccumulateFirst(stats, items, Len(items))

\* -------------------------------------------------------------- reporters
Value(v) == [raised |-> FALSE, val |-> v]
ZeroDivisionError == [raised |-> TRUE, val |-> 0]

\* a // b
FloorDiv(a, b) ==
    IF b = 0 THEN ZeroDivisionError
    ELSE IF b > 0 THEN Value(a \div b) ELSE Value((0 - a) \div (0 - b))

\* a / b, kept as the fraction
TrueDiv(a, b) ==
    IF b = 0 THEN ZeroDivisionError ELSE Value([num |-> a, den |-> b])

\* the nearest integer to num / den (den > 0), ties to even: what the
\* ".Nf" conversions print of a value, in units of the last digit
Nearest(num, den) ==
    LET q == num \div den
        r == num % den
    IN  IF 2 * r < den THEN q
        ELSE IF 2 * r > den THEN q + 1
        ELSE IF q % 2 = 0 THEN q ELSE q + 1

\* percall of format_bottleneck, as a fraction of units of 0.01 ms
PerCall(cumtime, calls) ==
    IF calls > 0 THEN TrueDiv(cumtime * MsPerSecond, calls)
    ELSE Value([num |-> 0, den |-> 1])

format_bottleneck(name, cumtime, calls) ==
    LET percall == PerCall(cumtime, calls)
    IN  IF percall.raised THEN ZeroDivisionError
        ELSE Value([kind |-> "bottleneck", name |-> name, cumtime |-> cumtime,
                    calls |-> calls,
                    percall |-> Nearest(percall.val.num, percall.val.den)])

RECURSIVE InsertDesc_Unstable(_, _)
\* mutant: e goes before the entries of equal cumtime
InsertDesc_Unstable(sorted, e) ==
    IF sorted = <<>> THEN <<e>>
    ELSE IF Head(sorted).cumtime > e.cumtime
         THEN <<Head(sorted)>> \o InsertDesc_Unstable(Tail(sorted), e)
         ELSE <<e>> \o sorted

RECURSIVE InsertDesc(_, _)
\* e goes after every entry whose cumtime is not smaller
InsertDesc(sorted, e) ==
    IF sorted = <<>> THEN <<e>>
    ELSE IF Head(sorted).cumtime >= e.cumtime
         THEN <<Head(sorted)>> \o InsertDesc(Tail(sorted), e)
         ELSE <<e>> \o sorted

RECURSIVE SortedFuncs(_)
\* sorted(all_stats.items(), key=cumtime, reverse=True): stable
SortedFuncs(stats) ==
    IF stats = <<>> THEN <<>>
    ELSE InsertDesc(SortedFuncs(SubSeq(stats, 1, Len(stats) - 1)), stats[Len(stats)])

\* mutant: >= in place of >
Significant_AtLeast(e) == e.cumtime >= Threshold /\ e.calls > 0

\* stats['cumtime'] > 0.01 and stats['calls'] > 0
Significant(e) == e.cumtime > Threshold /\ e.calls > 0

Bottlenecks(stats) == SelectSeq(SortedFuncs(stats), Significant)

\* bottlenecks[:4]
Top(b) == SubSeq(b, 1, Min(Limit, Len(b)))

RECURSIVE FormatAll(_)
\* for name, stats in bottlenecks[:4]: print(format_bottleneck(...)); the
\* lines printed, and whether a format_bottleneck call raised
FormatAll(b) ==
    IF b = <<>> THEN [raised |-> FALSE, lines |-> <<>>]
    ELSE LET line == format_bottleneck(Head(b).name, Head(b).cumtime, Head(b).calls)
             rest == FormatAll(Tail(b))
         IN  IF line.raised THEN [raised |-> TRUE, lines |-> <<>>]
             ELSE [raised |-> rest.raised, lines |-> <<line.val>> \o rest.lines]

\* mutant: no guard on the denominator
AvgMoves_Unguarded(tm, n) == FloorDiv(tm, n)

\* total_moves // num_games if num_games > 0 else 0
AvgMoves(tm, n) == IF n > 0 THEN FloorDiv(tm, n) ELSE Value(0)

\* total_score / num_games if num_games > 0 else 0
AvgScore(ts, n) == IF n > 0 THEN TrueDiv(ts, n) ELSE Value([num |-> 0, den |-> 1])

\* ------------------------------------------------------ run_profiled_game
Range(f) == {f[i] : i \in DOMAIN f}

\* mutant: the None check on the layout is missing
LayoutFound_Unchecked(l) == TRUE

\* if layout_obj is None
LayoutFound(l) == l # NoneVal

\* mutant: only the red agents are checked
AgentsLoaded_RedOnly(red, blue) == ~(NoneVal \in Range(red))

\* if None in red_agents or None in blue_agents
AgentsLoaded(red, blue) == ~(NoneVal \in Range(red) \/ NoneVal \in Range(blue))

\* len(game.move_history) if hasattr(game, 'move_history') else 0
MovesOf(g) == IF g.has_history THEN g.move_history ELSE 0

\* game.state.data.score if hasattr(game.state, 'data') else 0
ScoreOf(g) == IF g.has_data THEN g.score ELSE 0

Unset == "unset"

\* no direct call of format_bottleneck() made
NotCalled == [called |-> FALSE, args |-> <<>>, raised |-> FALSE, percall |-> 0]

\* how a finished run ended, read off its locals
Outcome ==
    IF layout_obj = NoneVal THEN "no_layout"
    ELSE IF NoneVal \in Range(red_agents) \cup Range(blue_agents) THEN "no_agents"
    ELSE "ok"

Init ==
    /\ pc = "for"
    /\ num_games \in -1..MaxGames
    /\ game_num = 0
    /\ profiler = [id |-> 0, stats |-> <<>>]
    /\ active = {}
    /\ layout_obj = Unset
    /\ red_agents = <<>>
    /\ blue_agents = <<>>
    /\ game = NoGame
    /\ score = 0
    /\ moves = 0
    /\ exc = "none"
    /\ all_stats = <<>>
    /\ total_moves = 0
    /\ total_score = 0
    /\ output = <<>>
    /\ formatted = NotCalled
    /\ runs = <<>>

\* mutant: the progress line shows game_num, not game_num + 1
StartGame_ZeroBased ==
    /\ pc = "for"
    /\ game_num < num_games
    /\ output' = Append(output, [kind |-> "game", i |-> game_num, n |-> num_games])
    /\ profiler' = [id |-> game_num + 1, stats |-> <<>>]
    /\ active' = active \cup {game_num + 1}
    /\ score' = 0
    /\ moves' = 0
    /\ layout_obj' = Unset
    /\ red_agents' = <<>>
    /\ blue_agents' = <<>>
    /\ game' = NoGame
    /\ pc' = "get_layout"
    /\ UNCHANGED <<num_games, game_num, exc, totals, formatted, runs>>

\* for game_num in range(num_games): print("Game i/N...", end=' '), then the
\* head of run_profiled_game: a new capture, score = moves = 0, enable()
StartGame ==
    /\ pc = "for"
    /\ game_num < num_games
    /\ output' = Append(output, [kind |-> "game", i |-> game_num + 1, n |-> num_games])
    /\ profiler' = [id |-> game_num + 1, stats |-> <<>>]
    /\ active' = active \cup {game_num + 1}
    /\ score' = 0
    /\ moves' = 0
    /\ layout_obj' = Unset
    /\ red_agents' = <<>>
    /\ blue_agents' = <<>>
    /\ game' = NoGame
    /\ pc' = "get_layout"
    /\ UNCHANGED <<num_games, game_num, exc, totals, formatted, runs>>

\* an engine call raised: control goes to the finally clause
Raise ==
    /\ exc' = "Exception"
    /\ pc' = "finally"
    /\ UNCHANGED <<profiler, locals, score, moves>>

\* mutant: a missing layout raises instead of returning
GetLayout_RaisesOnMissing ==
    /\ pc = "get_layout"
    /\ \/ Raise
       \/ \E l \in {"layout", NoneVal} :
            /\ layout_obj' = l
            /\ profiler' = Record(profiler, GetLayoutFn, GetLayoutSample)
            /\ pc' = IF LayoutFound(l) THEN "load_agents" ELSE "finally"
            /\ exc' = IF LayoutFound(l) THEN exc ELSE "Exception"
            /\ UNCHANGED <<red_agents, blue_agents, game, score, moves>>
    /\ UNCHANGED <<num_games, game_num, active, totals, output, formatted, runs>>

\* layout_obj = layout_module.get_layout(layout_name), and the None check
GetLayout ==
    /\ pc = "get_layout"
    /\ \/ Raise
       \/ \E l \in {"layout", NoneVal} :
            /\ layout_obj' = l
            /\ profiler' = Record(profiler, GetLayoutFn, GetLayoutSample)
            /\ pc' = IF LayoutFound(l) THEN "load_agents" ELSE "finally"
            /\ UNCHANGED <<red_agents, blue_agents, game, score, moves, exc>>
    /\ UNCHANGED <<num_games, game_num, active, totals, output, formatted, runs>>

\* red_agents, blue_agents = capture.load_agents(...), and the None check
LoadAgents ==
    /\ pc = "load_agents"
    /\ \/ Raise
       \/ \E red \in AgentLists, blue \in AgentLists :
            /\ red_agents' = red
            /\ blue_agents' = blue
            /\ profiler' = Record(profiler, LoadAgentsFn, LoadAgentsSample)
            /\ pc' = IF AgentsLoaded(red, blue) THEN "new_game" ELSE "finally"
            /\ UNCHANGED <<layout_obj, game, score, moves, exc>>
    /\ UNCHANGED <<num_games, game_num, active, totals, output, formatted, runs>>

\* agents_list, display, rules, game = rules.new_game(...)
NewGame ==
    /\ pc = "new_game"
    /\ \/ Raise
       \/ /\ game' = FreshGame
          /\ profiler' = Record(profiler, NewGameFn, NewGameSample)
          /\ pc' = "game_run"
          /\ UNCHANGED <<layout_obj, red_agents, blue_agents, score, moves, exc>>
    /\ UNCHANGED <<num_games, game_num, active, totals, output, formatted, runs>>

\* game.run(delay=0), then moves and score read off the game
GameRun ==
    /\ pc = "game_run"
    /\ \/ Raise
       \/ \E g \in Games, s \in RunSamples :
            /\ game' = g
            /\ profiler' = Record(Record(Record(profiler, RunFn, s),
                                         RedChooseFn, RedChooseSample),
                                  BlueChooseFn, BlueChooseSample)
            /\ moves' = MovesOf(g)
            /\ score' = ScoreOf(g)
            /\ pc' = "finally"
            /\ UNCHANGED <<layout_obj, red_agents, blue_agents, exc>>
    /\ UNCHANGED <<num_games, game_num, active, totals, output, formatted, runs>>

\* mutant: disable() after the try block, not in a finally clause
Finally_DisableAfterTry ==
    /\ pc = "finally"
    /\ LET reached == exc = "none" /\ layout_obj # NoneVal
                       /\ NoneVal \notin Range(red_agents) \cup Range(blue_agents)
       IN  /\ profiler' = IF reached THEN Record(profiler, DisableFn, DisableSample)
                          ELSE profiler
           /\ active' = IF reached THEN active \ {profiler.id} ELSE active
    /\ pc' = IF exc = "none" THEN "collect" ELSE "aborted"
    /\ UNCHANGED <<num_games, game_num, locals, score, moves, exc, totals, output,
                   formatted, runs>>

\* finally: profiler.disable(); then return, or the exception goes on to
\* main(), which has no handler
Finally ==
    /\ pc = "finally"
    /\ profiler' = Record(profiler, DisableFn, DisableSample)
    /\ active' = active \ {profiler.id}
    /\ pc' = IF exc = "none" THEN "collect" ELSE "aborted"
    /\ UNCHANGED <<num_games, game_num, locals, score, moves, exc, totals, output,
                   formatted, runs>>

\* back in main(): s = pstats.Stats(profiler) (which stops the capture and
\* refuses an empty one), s.strip_dirs(), the aggregation loop, the totals
\* and the rest of the progress line
Collect ==
    /\ pc = "collect"
    /\ active' = active \ {profiler.id}
    /\ IF profiler.stats = <<>>
       THEN /\ exc' = "TypeError"
            /\ pc' = "aborted"
            /\ UNCHANGED <<game_num, totals, output, runs>>
       ELSE /\ all_stats' = Accumulate(all_stats, profiler.stats)
            /\ total_moves' = total_moves + moves
            /\ total_score' = total_score + score
            /\ output' = Append(output, [kind |-> "result", moves |-> moves,
                                         score |-> score])
            /\ runs' = Append(runs, [outcome |-> Outcome, stats |-> profiler.stats,
                                     score |-> score, moves |-> moves,
                                     built |-> game.built])
            /\ game_num' = game_num + 1
            /\ pc' = "for"
            /\ exc' = exc
    /\ UNCHANGED <<num_games, profiler, locals, score, moves, formatted>>

\* the loop is over: the KEY BOTTLENECKS block
PrintBottlenecks ==
    /\ pc = "for"
    /\ game_num >= num_games
    /\ LET printed == FormatAll(Top(Bottlenecks(all_stats)))
       IN  /\ output' = output \o <<[kind |-> "bottlenecks"]>> \o printed.lines
                          \o (IF printed.raised THEN <<>> ELSE <<[kind |-> "rule"]>>)
           /\ pc' = IF printed.raised THEN "aborted" ELSE "summary"
           /\ exc' = IF printed.raised THEN "ZeroDivisionError" ELSE exc
    /\ UNCHANGED <<num_games, game_num, profiler, active, locals, score, moves,
                   totals, formatted, runs>>

\* the SUMMARY block
PrintSummary ==
    /\ pc = "summary"
    /\ LET avg_moves == AvgMoves(total_moves, num_games)
           avg_score == AvgScore(total_score, num_games)
       IN  IF avg_moves.raised \/ avg_score.raised
           THEN /\ output' = Append(output, [kind |-> "summary_head"])
                /\ pc' = "aborted"
                /\ exc' = "ZeroDivisionError"
           ELSE /\ output' = Append(output,
                     [kind |-> "summary", games |-> num_games,
                      total_moves |-> total_moves, avg_moves |-> avg_moves.val,
                      total_score |-> total_score,
                      avg_score |-> Nearest(avg_score.val.num * 10, avg_score.val.den)])
                /\ pc' = "done"
                /\ exc' = exc
    /\ UNCHANGED <<num_games, game_num, profiler, active, locals, score, moves,
                   totals, formatted, runs>>

Next ==
    \/ StartGame
    \/ GetLayout
    \/ LoadAgents
    \/ NewGame
    \/ GameRun
    \/ Finally
    \/ Collect
    \/ PrintBottlenecks
    \/ PrintSummary

Spec == Init /\ [][Next]_vars

\* ------------------------------------------- the report phase on its own
\* The reporters are functions of the session's state after the loop.  The
\* two specifications below start there: after a session of finished games
\* whose captures and results are drawn from bounded sets.

RECURSIVE FoldFirst(_, _)
\* all_stats after the first k of the runs rs
FoldFirst(rs, k) ==
    IF k = 0 THEN <<>>
    ELSE CHOOSE after \in {Accumulate(before, rs[k].stats) :
                              before \in {FoldFirst(rs, k - 1)}} : TRUE

\* all_stats after the runs rs, aggregated in that order
FoldRuns(rs) == FoldFirst(rs, Len(rs))

RECURSIVE SumFirst(_, _, _)
SumFirst(rs, field, k) ==
    IF k = 0 THEN 0
    ELSE SumFirst(rs, field, k - 1)
         + (IF field = "moves" THEN rs[k].moves ELSE rs[k].score)

\* total_moves and total_score after the runs rs
SumOf(rs, field) == SumFirst(rs, field, Len(rs))

RECURSIVE ProgressFirst(_, _, _)
ProgressFirst(rs, n, k) ==
    IF k = 0 THEN <<>>
    ELSE ProgressFirst(rs, n, k - 1)
         \o <<[kind |-> "game", i |-> k, n |-> n],
              [kind |-> "result", moves |-> rs[k].moves, score |-> rs[k].score]>>

\* the progress lines of the runs rs in a session of n games
ProgressOf(rs, n) == ProgressFirst(rs, n, Len(rs))

\* what a game that ran to its end returns
RunOf(g, items) ==
    [outcome |-> "ok", stats |-> items, score |-> ScoreOf(g), moves |-> MovesOf(g),
     built |-> TRUE]

\* the capture of a game that ran to its end
FullProfile(s) ==
    <<<<GetLayoutFn, GetLayoutSample>>, <<LoadAgentsFn, LoadAgentsSample>>,
      <<NewGameFn, NewGameSample>>, <<RunFn, s>>, <<RedChooseFn, RedChooseSample>>,
      <<BlueChooseFn, BlueChooseSample>>, <<DisableFn, DisableSample>>>>

\* main() at the end of its loop over the games gs with the captures rs
AfterLoop(rs, last) ==
    /\ pc = "for"
    /\ num_games = Len(rs)
    /\ game_num = Len(rs)
    /\ profiler = [id |-> Len(rs), stats |-> rs[Len(rs)].stats]
    /\ active = {}
    /\ layout_obj = "layout"
    /\ red_agents = <<"agent0", "agent1">>
    /\ blue_agents = <<"agent0", "agent1">>
    /\ game = last
    /\ score = ScoreOf(last)
    /\ moves = MovesOf(last)
    /\ exc = "none"
    /\ all_stats = FoldRuns(rs)
    /\ total_moves = SumOf(rs, "moves")
    /\ total_score = SumOf(rs, "score")
    /\ output = ProgressOf(rs, Len(rs))
    /\ formatted = NotCalled
    /\ runs = rs

\* names of profiled functions, in the order a capture may hold them
ReportNames == <<"get_layout", "load_agents", "new_game", "run", "choose_action",
                 "get_action", "disable">>

\* one profiled function's totals in a run: at, just above and above the
\* threshold, called or (as the filter allows for) with no call counted
ReportSamples ==
    {Sample(2, 0, Threshold), Sample(2, 0, 2), Sample(2, 0, 3), Sample(0, 0, 3)}

ReportProfiles ==
    UNION {{[i \in 1..k |-> <<<<"engine.py", i, ReportNames[i]>>, f[i]>>] :
               f \in [1..k -> ReportSamples]} : k \in 1..MaxNames}

InitRank ==
    \E items \in ReportProfiles :
        \E rs \in {<<RunOf(FreshGame, items)>>} : AfterLoop(rs, FreshGame)

NextRank == PrintBottlenecks \/ PrintSummary

SpecRank == InitRank /\ [][NextRank]_vars

InitAverages ==
    \/ Init /\ num_games <= 0
    \/ \E n \in 1..MaxGames : \E gs \in [1..n -> Games] :
          \E rs \in {[i \in 1..n |-> RunOf(gs[i], FullProfile(Sample(1, 0, 1)))]} :
              AfterLoop(rs, gs[n])

\* format_bottleneck(name, cumtime, calls) called on its own
FormatBottleneckCall ==
    /\ ~formatted.called
    /\ \E cumtime \in {0, Threshold, 3, Big}, calls \in 0..2 :
          LET line == format_bottleneck("f", cumtime, calls)
          IN  formatted' = [called |-> TRUE, args |-> <<"f", cumtime, calls>>,
                            raised |-> line.raised,
                            percall |-> IF line.raised THEN 0 ELSE line.val.percall]
    /\ UNCHANGED <<pc, num_games, game_num, profiler, active, locals, score, moves,
                   exc, totals, output, runs>>

NextAverages == PrintBottlenecks \/ PrintSummary \/ FormatBottleneckCall

SpecAverages == InitAverages /\ [][NextAverages]_vars

\* ------------------------------------------------------------- properties
InRun == {"get_layout", "load_agents", "new_game", "game_run", "finally"}

Lines(kind) == SelectSeq(output, LAMBDA l : l.kind = kind)

Keys(stats) == {stats[i].name : i \in DOMAIN stats}

\* an aggregate as a mapping: its entries without their insertion order
AsMapping(stats) == {stats[i] : i \in DOMAIN stats}

Entry(stats, name) == stats[IndexOf(stats, name)]

Funcs(items) == {items[i][1] : i \in DOMAIN items}

\* the runs rs taken in the order p
Permuted(rs, p) == [i \in DOMAIN rs |-> rs[p[i]]]

RECURSIVE SampleSum(_, _, _)
\* the exact sum of one field over the samples of the functions called name
SampleSum(items, name, field) ==
    IF items = <<>> THEN 0
    ELSE SampleSum(Tail(items), name, field)
         + (IF FuncName(Head(items)[1]) # name THEN 0
            ELSE IF field = "nc" THEN Head(items)[2].nc
            ELSE IF field = "tt" THEN Head(items)[2].tt
            ELSE Head(items)[2].ct)

RECURSIVE RunsSum(_, _, _)
RunsSum(rs, name, field) ==
    IF rs = <<>> THEN 0
    ELSE RunsSum(Tail(rs), name, field) + SampleSum(Head(rs).stats, name, field)

NamesSeen(rs) == UNION {{FuncName(f) : f \in Funcs(rs[i].stats)} : i \in DOMAIN rs}

\* the current run's setup has failed
SetupFailed ==
    \/ layout_obj = NoneVal
    \/ NoneVal \in Range(red_agents) \cup Range(blue_agents)

C3_CaptureScopedToOneRun ==
    /\ active \subseteq {profiler.id}
    /\ pc \in InRun => active = {profiler.id} /\ profiler.id = game_num + 1
    /\ pc \notin InRun => active = {}
    /\ pc = "get_layout" => profiler.stats = <<>>

C3_Witness ==
    /\ pc = "aborted"
    /\ exc = "Exception"
    /\ active = {}
    /\ Len(runs) = 2
    /\ runs[1].outcome = "no_layout"
    /\ runs[2].outcome = "no_agents"

C5_AnyOrderSameAggregate ==
    pc = "for" =>
        \A p \in Permutations(DOMAIN runs) :
            AsMapping(FoldRuns(Permuted(runs, p))) = AsMapping(all_stats)

\* C5 (amended): the keys of all_stats are the names seen in the runs, each
\* call count is the exact sum of that name's counts, each time total is the
\* exact sum whenever that sum needs no rounding, and the runs taken in any
\* order give the same keys, the same call counts and, for sums that need
\* no rounding, the same times.
C5_KeysAndCountsInAnyOrder ==
    /\ Cardinality(Keys(all_stats)) = Len(all_stats)
    /\ Keys(all_stats) = NamesSeen(runs)
    /\ \A name \in Keys(all_stats) :
          LET e  == Entry(all_stats, name)
              ct == RunsSum(runs, name, "ct")
              tt == RunsSum(runs, name, "tt")
          IN  /\ e.calls = RunsSum(runs, name, "nc")
              /\ ct < 2^MantissaBits => e.cumtime = ct
              /\ tt < 2^MantissaBits => e.tottime = tt
    /\ pc = "for" =>
          \A p \in Permutations(DOMAIN runs) :
              LET other == FoldRuns(Permuted(runs, p))
              IN  /\ Keys(other) = Keys(all_stats)
                  /\ \A name \in Keys(all_stats) :
                        LET e == Entry(all_stats, name)
                            o == Entry(other, name)
                        IN  /\ o.calls = e.calls
                            /\ RunsSum(runs, name, "ct") < 2^MantissaBits =>
                                  o.cumtime = e.cumtime
                            /\ RunsSum(runs, name, "tt") < 2^MantissaBits =>
                                  o.tottime = e.tottime

C5_Witness ==
    /\ pc = "done"
    /\ num_games = 3
    /\ runs[1].outcome = "no_layout"
    /\ runs[2].outcome = "ok"
    /\ runs[3].outcome = "ok"
    /\ "run" \in Keys(all_stats)
    /\ Entry(all_stats, "get_layout").calls = 3

\* C6: in the samples of one run no function name occurs twice, so one run
\* adds to each entry of all_stats at most once.
C6_NameOncePerRun ==
    \A i \in DOMAIN runs :
        \A j, k \in DOMAIN runs[i].stats :
            j # k => FuncName(runs[i].stats[j][1]) # FuncName(runs[i].stats[k][1])

\* C7 (as claimed): a run that ends early on a failed setup returns no
\* samples.
C7_FailedSetupReturnsNoSamples ==
    \A i \in DOMAIN runs : runs[i].outcome # "ok" => runs[i].stats = <<>>

\* C7 (amended): a run that ends early on a failed setup returns score 0 and
\* moves 0 with the samples of what ran before the return: the layout
\* lookup, the agent loading when the layout was found, and the capture's
\* stop; it holds no sample of game construction or execution, and
\* aggregating it adds those names to all_stats.
C7_FailedSetupReturnsSetupSamples ==
    \A i \in DOMAIN runs :
        runs[i].outcome # "ok" =>
            /\ runs[i].score = 0 /\ runs[i].moves = 0
            /\ Funcs(runs[i].stats) \cap GameFns = {}
            /\ Funcs(runs[i].stats) =
                  IF runs[i].outcome = "no_layout"
                  THEN {GetLayoutFn, DisableFn}
                  ELSE {GetLayoutFn, LoadAgentsFn, DisableFn}
            /\ {FuncName(f) : f \in Funcs(runs[i].stats)} \subseteq Keys(all_stats)
            /\ Entry(all_stats, "get_layout").calls >= 1

C7_Witness ==
    /\ Len(runs) = 2
    /\ runs[1].outcome = "no_layout"
    /\ runs[2].outcome = "no_agents"
    /\ Keys(all_stats) = {"get_layout", "load_agents", "disable"}

BottleneckLines == Lines("bottleneck")

Passing == {i \in DOMAIN all_stats :
               all_stats[i].cumtime > Threshold /\ all_stats[i].calls > 0}

\* C8: an entry is printed as a bottleneck only if its cumulative time is
\* strictly above the threshold and its call count is above 0.
C8_OnlySignificantEntries ==
    pc \in {"summary", "done"} =>
        /\ \A l \in Range(BottleneckLines) :
              \E i \in DOMAIN all_stats :
                  /\ all_stats[i].name = l.name
                  /\ all_stats[i].cumtime = l.cumtime /\ all_stats[i].calls = l.calls
                  /\ l.cumtime > Threshold
                  /\ l.calls > 0
        /\ \A i \in DOMAIN all_stats :
              all_stats[i].calls = 0 \/ all_stats[i].cumtime <= Threshold =>
                  \A l \in Range(BottleneckLines) : l.name # all_stats[i].name

C8_Witness ==
    /\ pc = "summary"
    /\ Len(BottleneckLines) = 2
    /\ \E i, j \in DOMAIN all_stats :
          /\ all_stats[i].calls = 0 /\ all_stats[i].cumtime > Threshold
          /\ all_stats[j].calls > 0 /\ all_stats[j].cumtime = Threshold

\* C9: the printed bottlenecks are the first min(4, k) of the k entries that
\* pass the filter, in non-increasing cumulative time, entries of equal time
\* in the order of their insertion into all_stats.
C9_RankedTopFour ==
    pc \in {"summary", "done"} =>
        LET b == BottleneckLines
            at(j) == IndexOf(all_stats, b[j].name)
        IN  /\ Len(b) = Min(Limit, Cardinality(Passing))
            /\ \A j \in DOMAIN b :
                  /\ at(j) \in Passing
                  /\ b[j].cumtime = all_stats[at(j)].cumtime
            /\ \A j, k \in DOMAIN b :
                  j < k => \/ b[j].cumtime > b[k].cumtime
                           \/ b[j].cumtime = b[k].cumtime /\ at(j) < at(k)
            /\ \A i \in Passing :
                  (\A j \in DOMAIN b : at(j) # i) =>
                      \A j \in DOMAIN b :
                          \/ b[j].cumtime > all_stats[i].cumtime
                          \/ b[j].cumtime = all_stats[i].cumtime /\ at(j) < i

C9_Witness ==
    /\ pc = "summary"
    /\ Cardinality(Passing) = 5
    /\ Len(BottleneckLines) = 4
    /\ all_stats[1].cumtime < all_stats[2].cumtime
    /\ BottleneckLines[4].cumtime = all_stats[5].cumtime
    /\ BottleneckLines[4].name # all_stats[5].name

\* C10: the summary's average moves is the floor of total_moves / num_games
\* and its average score is total_score / num_games for num_games > 0, both
\* are 0 otherwise; format_bottleneck gives a per-call time of 0 for 0 calls
\* and (cumtime / calls) * 1000 otherwise; nothing divides by zero.
C10_NoDivisionByZero ==
    /\ exc # "ZeroDivisionError"
    /\ pc = "done" =>
          LET s == output[Len(output)]
          IN  /\ s.kind = "summary"
              /\ num_games > 0 =>
                    /\ s.avg_moves * num_games <= total_moves
                    /\ total_moves < (s.avg_moves + 1) * num_games
                    /\ 2 * (10 * total_score - s.avg_score * num_games) <= num_games
                    /\ 2 * (s.avg_score * num_games - 10 * total_score) <= num_games
              /\ num_games <= 0 => s.avg_moves = 0 /\ s.avg_score = 0
    /\ formatted.called =>
          LET cumtime == formatted.args[2]
              calls == formatted.args[3]
          IN  /\ ~formatted.raised
              /\ calls = 0 => formatted.percall = 0
              /\ calls > 0 =>
                    /\ 2 * (cumtime * MsPerSecond - formatted.percall * calls) <= calls
                    /\ 2 * (formatted.percall * calls - cumtime * MsPerSecond) <= calls

C10_Witness ==
    /\ pc = "done"
    /\ num_games = 0
    /\ formatted.called
    /\ formatted.args[3] = 0
    /\ formatted.args[2] > 0

====
